---- MODULE Spec2Model ----
(***************************************************************************)
(* Model of the multi-agent research workflow                              *)
(* (workflows/langgraph_workflow.py, class ResearchWorkflow) together with *)
(* the collaborators it calls (agents/perplexity_agent.py,                 *)
(* services/perplexity_client.py, agents/youtube_researcher.py,            *)
(* agents/api_agent.py).                                                   *)
(*                                                                         *)
(* A text is a sequence of atoms.  An atom is a one-character string, or,  *)
(* for a literal of the program, a run of allowed characters that the      *)
(* sanitizer's regular expressions treat like a single word character.     *)
(* A Python dict is a TLA+ record; a key the dict lacks is a field the     *)
(* record lacks, and dict.get(k, d) is Get(r, k, d).                       *)
(***************************************************************************)
EXTENDS Integers, Sequences, FiniteSets, TLC

(***************************************************************************)
(* Bounds of the model.                                                    *)
(***************************************************************************)
MaxSel == 3          \* longest agent_selection list that is requested
MaxClock == 1        \* datetime.now() reads a value in 0..MaxClock
MaxLen == 5          \* longest text handed to a direct _clean_text call
MaxItems == 4        \* longest list handed to a direct _clean_list_items call

(***************************************************************************)
(* Generic helpers (Python built-ins).                                     *)
(***************************************************************************)
Get(d, k, default) == IF k \in DOMAIN d THEN d[k] ELSE default

Range(s) == {s[i] : i \in DOMAIN s}

RECURSIVE SumSeq(_)
SumSeq(s) == IF s = <<>> THEN 0 ELSE Head(s) + SumSeq(Tail(s))

RECURSIVE Concat(_)
Concat(ss) == IF ss = <<>> THEN <<>> ELSE Head(ss) \o Concat(Tail(ss))

\* s[:n]
Prefix(s, n) == SubSeq(s, 1, IF Len(s) < n THEN Len(s) ELSE n)

(***************************************************************************)
(* Text Sanitizer: ResearchWorkflow._clean_text.                           *)
(***************************************************************************)
Whitespace == {" ", "\n", "\t"}

\* characters that the pattern [^\w\s.,!?;:()\-'"\n] deletes
Disallowed == {"<", ">", "*", "#", "$"}

HasAt(s, i, pat) ==
    /\ i + Len(pat) - 1 <= Len(s)
    /\ \A j \in 1..Len(pat) : s[i + j - 1] = pat[j]

\* index of the first occurrence of c at or after p, 0 when there is none
FirstAt(s, c, p) ==
    IF \E j \in p..Len(s) : s[j] = c
    THEN CHOOSE j \in p..Len(s) : s[j] = c /\ \A k \in p..(j - 1) : s[k] # c
    ELSE 0

\* does  open [^stop]+ close  match at position i
MatchAt(s, i, open, stop, close) ==
    /\ HasAt(s, i, open)
    /\ LET p == i + Len(open)
           k == FirstAt(s, stop, p)
       IN  k >= p + 1 /\ HasAt(s, k, close)

\* re.sub(open [^stop]+ close, inner-or-nothing, s): leftmost matches,
\* scanned left to right, never overlapping
RECURSIVE ReSubFrom(_, _, _, _, _, _)
ReSubFrom(s, i, open, stop, close, keep) ==
    IF i > Len(s) THEN <<>>
    ELSE IF MatchAt(s, i, open, stop, close)
         THEN LET p == i + Len(open)
                  k == FirstAt(s, stop, p)
              IN  (IF keep THEN SubSeq(s, p, k - 1) ELSE <<>>)
                  \o ReSubFrom(s, k + Len(close), open, stop, close, keep)
         ELSE <<s[i]>> \o ReSubFrom(s, i + 1, open, stop, close, keep)

ReSub(s, open, stop, close, keep) == ReSubFrom(s, 1, open, stop, close, keep)

\* re.sub(r'\s+', ' ', s)
RECURSIVE CollapseFrom(_, _)
CollapseFrom(s, i) ==
    IF i > Len(s) THEN <<>>
    ELSE IF s[i] \in Whitespace
         THEN IF i > 1 /\ s[i - 1] \in Whitespace
              THEN CollapseFrom(s, i + 1)
              ELSE <<" ">> \o CollapseFrom(s, i + 1)
         ELSE <<s[i]>> \o CollapseFrom(s, i + 1)

CollapseWhitespace(s) == CollapseFrom(s, 1)

\* re.sub(r'[^\w\s.,!?;:()\-\'\"\n]', '', s)
DropDisallowed(s) == SelectSeq(s, LAMBDA c : c \notin Disallowed)

\* str.strip()
RECURSIVE LStrip(_)
LStrip(s) == IF s # <<>> /\ Head(s) \in Whitespace THEN LStrip(Tail(s)) ELSE s

RECURSIVE RStrip(_)
RStrip(s) ==
    IF s # <<>> /\ s[Len(s)] \in Whitespace
    THEN RStrip(SubSeq(s, 1, Len(s) - 1))
    ELSE s

Strip(s) == RStrip(LStrip(s))

clean_text(text) ==
    IF text = <<>> THEN <<>>
    ELSE LET t1 == ReSub(text, <<"<">>, ">", <<">">>, FALSE)
             t2 == ReSub(t1, <<"*", "*">>, "*", <<"*", "*">>, TRUE)
             t3 == ReSub(t2, <<"*">>, "*", <<"*">>, TRUE)
             t4 == ReSub(t3, <<"_", "_">>, "_", <<"_", "_">>, TRUE)
             t5 == ReSub(t4, <<"_">>, "_", <<"_">>, TRUE)
             t6 == CollapseWhitespace(t5)
             t7 == DropDisallowed(t6)
         IN  Strip(t7)

(***************************************************************************)
(* ResearchWorkflow._clean_list_items: clean every item, drop the empty    *)
(* ones and the ones whose cleaned value was seen before.                  *)
(***************************************************************************)
RECURSIVE CleanListFrom(_, _, _)
CleanListFrom(items, i, cleaned) ==
    IF i > Len(items) THEN cleaned
    ELSE IF items[i] = <<>> THEN CleanListFrom(items, i + 1, cleaned)
         ELSE LET text == clean_text(items[i])
              IN  IF text # <<>> /\ text \notin Range(cleaned)
                  THEN CleanListFrom(items, i + 1, Append(cleaned, text))
                  ELSE CleanListFrom(items, i + 1, cleaned)

\* a list cleaner whose "seen" set holds the items as given, not as cleaned
clean_list_items_seen_raw(items) ==
    LET firsts == SelectSeq([i \in DOMAIN items |-> [at |-> i, item |-> items[i]]],
                            LAMBDA e : \A j \in 1..(e.at - 1) : items[j] # e.item)
        texts == [i \in DOMAIN firsts |-> clean_text(firsts[i].item)]
    IN  SelectSeq(texts, LAMBDA t : t # <<>>)

clean_list_items(items) == CleanListFrom(items, 1, <<>>)

(***************************************************************************)
(* Inputs of the model: what the environment and the upstream services     *)
(* can hand to the program.                                                *)
(***************************************************************************)
AgentNames == <<"perplexity", "youtube", "api">>     \* the registry, in the order of execute()'s if-chain

AgentIds == {"perplexity", "YouTube", "api", "bogus"}   \* ids a caller may pass

\* (query, domain) pairs a caller may pass; the second query is blank
QueryDomains == { <<<<"q">>, "general">>, <<<<" ">>, "academic">> }

ExcMsgs == {"", "boom"}                  \* str(e) of an exception

ClockVals == 0..MaxClock

\* every list of at most MaxSel ids
AllSelections == UNION {[1..k -> AgentIds] : k \in 0..MaxSel}

\* one list for every set of registered agents
PlainSelections ==
    { <<>>, <<"perplexity">>, <<"YouTube">>, <<"api">>, <<"perplexity", "YouTube">>,
      <<"perplexity", "api">>, <<"YouTube", "api">>, <<"perplexity", "YouTube", "api">> }

\* the characters of the texts handed to _clean_text directly: a word
\* character, a blank, the emphasis markers and the tag brackets
Alphabet == {"a", " ", "*", "_", "<", ">"}

\* every text of at most MaxLen characters
Texts == UNION {[1..k -> Alphabet] : k \in 0..MaxLen}

\* the items of the lists handed to _clean_list_items directly: the empty
\* string, a blank one, and two words each plain and marked up
ItemTexts ==
    { <<>>, <<" ">>, <<"a">>, <<"*", "a", "*">>, <<"b">>, <<"<", "i", ">", "b">> }

\* every list of at most MaxItems items
ItemLists == UNION {[1..k -> ItemTexts] : k \in 0..MaxItems}

\* str.lower() on the ids above
Lower(id) == IF id = "YouTube" THEN "youtube" ELSE id

MsgText(msg) == IF msg = "" THEN <<>> ELSE <<msg>>

\* the assistant message of a chat completion, seen through the markers
\* _extract_sections looks for
MarkedContent ==
    [summary |-> <<"*", "S", "*">>, lead |-> <<"L">>,
     findings |-> << <<"X">>, <<"<", "i", ">", "X">>, <<"Y">>,
                     <<"a", " ", "#", " ", "b">> >>,
     long_sentences |-> <<>>, insights |-> << <<"I">> >>]

PlainContent ==
    [summary |-> <<>>, lead |-> <<>>, findings |-> <<>>,
     long_sentences |-> << <<"X">> >>, insights |-> <<>>]

\* the JSON body of a 200 response
CitedBody ==
    [choices |-> <<MarkedContent>>, citations |-> <<"u1", "u2">>,
     usage |-> [total_tokens |-> 7]]

HttpBodies ==
    { CitedBody,
      [choices |-> <<PlainContent>>],
      [choices |-> <<>>, citations |-> <<>>],
      [malformed |-> "boom"] }

\* what session.post(...) ends in
HttpOutcomes ==
    { [kind |-> "status", status |-> "500"], [kind |-> "timeout"],
      [kind |-> "exception", msg |-> "boom"] }
    \cup { [kind |-> "json", body |-> b] : b \in HttpBodies }

\* a failing and a succeeding exchange
FewHttpOutcomes == { [kind |-> "timeout"], [kind |-> "json", body |-> CitedBody] }

\* what the video collaborator's environment does: its own key lookup, the
\* search, and the per-video transcript/summary pipeline
YoutubeEnvs ==
    { [api_key |-> FALSE], [api_key |-> TRUE, search |-> "failed", msg |-> "boom"] }
    \cup { [api_key |-> TRUE, search |-> "ok", videos |-> n, tokens |-> n * 3, raises |-> FALSE]
             : n \in {0, 2} }
    \cup { [api_key |-> TRUE, search |-> "ok", videos |-> 1, raises |-> TRUE, msg |-> m]
             : m \in ExcMsgs }

FewYoutubeEnvs ==
    { [api_key |-> TRUE, search |-> "failed", msg |-> "boom"],
      [api_key |-> TRUE, search |-> "ok", videos |-> 2, tokens |-> 6, raises |-> FALSE] }

SomeItems ==
      << [title |-> <<"T">>, source |-> "u3", summary |-> <<"<", "p", ">", "s">>,
          published_date |-> "2024-01-01"],
         [title |-> <<"U">>, source |-> "u4", summary |-> <<>>,
          published_date |-> ""] >>

Items == { <<>>, SomeItems }

\* what the news / web / academic fetchers of the API agent do
Fetches ==
    { [raised |-> TRUE, msg |-> "boom"] }
    \cup { [raised |-> FALSE, news |-> it, web |-> IF it = <<>> THEN <<>> ELSE <<it[1]>>,
              academic |-> it]
             : it \in Items }

FewFetches ==
    { [raised |-> TRUE, msg |-> "boom"],
      [raised |-> FALSE, news |-> SomeItems, web |-> <<>>, academic |-> SomeItems] }

(***************************************************************************)
(* Deep-search collaborator: services/perplexity_client.py and             *)
(* agents/perplexity_agent.py.                                             *)
(***************************************************************************)
\* PerplexityClient._extract_sections, on a message whose marked sections
\* are content.summary / findings / insights and whose plain sentences are
\* content.lead / long_sentences
extract_sections(content) ==
    [summary  |-> IF content.summary # <<>> THEN content.summary
                  ELSE Strip(content.lead) \o <<".">>,
     findings |-> IF content.findings # <<>> THEN content.findings
                  ELSE Prefix(content.long_sentences, 5),
     insights |-> content.insights]

\* PerplexityClient._format_citations, for citations given as url strings
format_citations(citations) ==
    [idx \in 1..Len(citations) |->
        [id |-> idx, url |-> citations[idx],
         title |-> <<"Source", " ", ToString(idx)>>,
         snippet |-> <<>>, type |-> "web"]]

FailedSearch(error) == [success |-> FALSE, error |-> error, tokens_used |-> 0]

\* PerplexityClient._parse_response; estimated_cost is in millionths of a dollar
parse_response(result, query, domain) ==
    IF "malformed" \in DOMAIN result
    THEN FailedSearch("Parse error: " \o result.malformed)
    ELSE LET choices == Get(result, "choices", <<>>)
         IN  IF choices = <<>> THEN FailedSearch("No response from API")
             ELSE LET content == choices[1]
                      citations == Get(result, "citations", <<>>)
                      usage == Get(result, "usage", <<>>)
                      tokens_used == Get(usage, "total_tokens", 0)
                      sections == extract_sections(content)
                      sources == format_citations(citations)
                  IN  [success |-> TRUE, query |-> query, domain |-> domain,
                       timestamp |-> "now",
                       executive_summary |-> Get(sections, "summary", <<>>),
                       key_findings |-> Get(sections, "findings", <<>>),
                       insights |-> Get(sections, "insights", <<>>),
                       sources |-> sources,
                       citation_count |-> Len(sources),
                       tokens_used |-> tokens_used,
                       estimated_cost |-> tokens_used * 5,
                       model |-> "sonar-pro"]

\* a deep_search without its "except Exception": a connection error leaves
\* the call as an exception
deep_search_unguarded(http, query, domain) ==
    CASE http.kind = "status"    -> FailedSearch("API error " \o http.status)
      [] http.kind = "timeout"   -> FailedSearch("Request timeout")
      [] http.kind = "exception" -> [raise |-> http.msg]
      [] http.kind = "json"      -> parse_response(http.body, query, domain)

\* PerplexityClient.deep_search, given what the HTTP call ended in
deep_search(http, query, domain) ==
    CASE http.kind = "status"    -> FailedSearch("API error " \o http.status)
      [] http.kind = "timeout"   -> FailedSearch("Request timeout")
      [] http.kind = "exception" -> FailedSearch("Connection error: " \o http.msg)
      [] http.kind = "json"      -> parse_response(http.body, query, domain)

\* PerplexityAgent.execute
PerplexityAgentExecute(http, query, domain) ==
    deep_search(http, query, domain)
      @@ [agent_name |-> "Perplexity Deep Research Agent", agent_type |-> "perplexity"]

(***************************************************************************)
(* Video collaborator: agents/youtube_researcher.py, analyze_youtube.      *)
(* The value is either [raise |-> str(e)] or the returned dict.            *)
(***************************************************************************)
analyze_youtube(state, env) ==
    IF ~env.api_key
    THEN [youtube_results |->
            [sources |-> <<>>, tokens |-> 0, cost |-> 0,
             details |-> [error |-> "YOUTUBE_API_KEY not configured"]]]
    ELSE IF env.search = "failed"
    THEN [youtube_results |->
            [sources |-> <<>>, tokens |-> 0, cost |-> 0,
             details |-> [error |-> "YouTube search failed: " \o env.msg]]]
    ELSE IF env.raises THEN [raise |-> env.msg]
    ELSE [youtube_results |->
            [sources |-> [i \in 1..env.videos |->
                            [name |-> "video_" \o ToString(i),
                             items |-> <<"structured">>,
                             metadata |-> [video_id |-> i]]],
             tokens |-> env.tokens, cost |-> env.tokens * 2,
             details |-> [mode |-> Get(state, "mode", "extended"),
                          video_count |-> env.videos]]]

(***************************************************************************)
(* Academic/news collaborator: agents/api_agent.py, APIAgent.execute.      *)
(***************************************************************************)
Paper(item, type) ==
    [title |-> Get(item, "title", <<"Untitled">>),
     url |-> Get(item, "source", ""),
     summary |-> Get(item, "summary", <<>>),
     published |-> Get(item, "published_date", ""),
     type |-> type]

PapersOf(items, type) == [i \in 1..Len(items) |-> Paper(items[i], type)]

AcademicPapersOf(items) ==
    [i \in 1..Len(items) |->
        Paper(items[i], "academic") @@ [authors |-> Get(items[i], "authors", <<>>)]]

FindingsOf(items, label) ==
    LET withSummary == SelectSeq(items, LAMBDA it : Get(it, "summary", <<>>) # <<>>)
    IN  [i \in 1..Len(withSummary) |-> <<label, " ">> \o withSummary[i].title]

CountType(papers, type) == Len(SelectSeq(papers, LAMBDA p : Get(p, "type", "") = type))

FetchError(fetch) ==
    [papers |-> <<>>, summary |-> <<"Error fetching data:", " ">> \o MsgText(fetch.msg),
     findings |-> <<>>, insights |-> <<>>]

APIAgentExecute(query, domain, fetch) ==
    IF fetch.raised THEN FetchError(fetch)
    ELSE IF domain \in {"stocks", "technology", "general"}
    THEN LET papers == PapersOf(fetch.news, "news") \o PapersOf(fetch.web, "web")
         IN  [papers |-> papers,
              summary |-> <<"Retrieved ", ToString(Len(papers)),
                            " sources from news and web APIs for ", domain, " domain.">>,
              findings |-> FindingsOf(fetch.news, "News:"),
              insights |-> << <<"Found ", ToString(CountType(papers, "news")), " news articles">>,
                              <<"Found ", ToString(CountType(papers, "web")), " web sources">> >>]
    ELSE IF domain \in {"medical", "academic"}
    THEN LET papers == AcademicPapersOf(fetch.academic)
         IN  [papers |-> papers,
              summary |-> <<"Retrieved ", ToString(Len(papers)),
                            " academic papers for ", domain, " domain.">>,
              findings |-> FindingsOf(fetch.academic, "Academic:"),
              insights |-> IF Len(papers) > 0
                           THEN << <<"Found ", ToString(Len(papers)),
                                     " peer-reviewed academic sources">> >>
                           ELSE <<>>]
    ELSE LET papers == AcademicPapersOf(fetch.academic) \o PapersOf(fetch.news, "news")
         IN  [papers |-> papers,
              summary |-> <<"Retrieved ", ToString(Len(papers)), " sources from multiple APIs.">>,
              findings |-> <<>>,
              insights |-> << <<"Found ", ToString(CountType(papers, "academic")),
                                " academic papers and ",
                                ToString(CountType(papers, "news")), " news articles">> >>]

(***************************************************************************)
(* Agent adapters of ResearchWorkflow.                                     *)
(***************************************************************************)
\* the dict every adapter returns on its error paths
ErrorResult(agent_name, error) ==
    [agent_name |-> agent_name, error |-> error, sources |-> <<>>,
     cost |-> 0, tokens |-> 0]

\* the error dict of _execute_api, which also carries empty content keys
ApiErrorResult(error) ==
    [agent_name |-> "api", sources |-> <<>>, summary |-> <<>>, findings |-> <<>>,
     insights |-> <<>>, cost |-> 0, tokens |-> 0, error |-> error]

\* _execute_perplexity up to the await: the import and the credential
\* lookup.  "await" means the adapter goes on to call the agent.
PerplexityBegin(import_error, api_key) ==
    IF import_error # "none"
    THEN ErrorResult("perplexity", "Import error: " \o import_error)
    ELSE IF ~api_key
    THEN ErrorResult("perplexity", "PERPLEXITY_API_KEY not found")
    ELSE [await |-> "perplexity_agent.execute"]

\* _execute_perplexity after the await, on the dict the agent returned
PerplexityResult(result) ==
    IF ~Get(result, "success", FALSE)
    THEN ErrorResult("perplexity", Get(result, "error", "Unknown error"))
    ELSE LET raw == Get(result, "sources", <<>>)
             sources == [i \in 1..Len(raw) |->
                            [title |-> clean_text(Get(raw[i], "title", <<"Untitled">>)),
                             url |-> Get(raw[i], "url", ""),
                             summary |-> clean_text(Get(raw[i], "snippet", <<"No description">>)),
                             confidence |-> 45,
                             date |-> Get(result, "timestamp", "")]]
         IN  [agent_name |-> "perplexity",
              sources |-> sources,
              summary |-> clean_text(Get(result, "executive_summary", <<>>)),
              findings |-> clean_list_items(Get(result, "key_findings", <<>>)),
              insights |-> clean_list_items(Get(result, "insights", <<>>)),
              cost |-> Get(result, "estimated_cost", 0),
              tokens |-> Get(result, "tokens_used", 0)]

\* _execute_youtube before the collaborator is entered
YoutubeBegin(api_key, import_error) ==
    IF ~api_key THEN ErrorResult("youtube", "YOUTUBE_API_KEY not configured")
    ELSE IF import_error # "none" THEN ErrorResult("youtube", import_error)
    ELSE [call |-> "analyze_youtube"]

\* _execute_youtube on what analyze_youtube did (returned or raised)
YoutubeResult(result) ==
    IF "raise" \in DOMAIN result THEN ErrorResult("youtube", result.raise)
    ELSE LET youtube_data == Get(result, "youtube_results", <<>>)
             videos == Get(youtube_data, "sources", <<>>)
             sources == [i \in 1..Len(videos) |->
                            [title |-> clean_text(Get(videos[i], "title", <<"Untitled">>)),
                             url |-> Get(videos[i], "url", ""),
                             summary |-> clean_text(Get(videos[i], "description", <<"No description">>)),
                             confidence |-> 35,
                             date |-> Get(videos[i], "published_at", "")]]
         IN  [agent_name |-> "youtube",
              sources |-> sources,
              summary |-> clean_text(Get(youtube_data, "summary", <<>>)),
              findings |-> clean_list_items(Get(youtube_data, "findings", <<>>)),
              insights |-> clean_list_items(Get(youtube_data, "insights", <<>>)),
              cost |-> 0,
              tokens |-> 0]

\* _execute_api on the dict APIAgent.execute returned
ApiResult(result) ==
    LET papers == Get(result, "papers", <<>>)
        formatted_sources ==
            [idx \in 1..Len(papers) |->
                LET paper == papers[idx]
                    title == Get(paper, "title", <<>>)
                    summary == Get(paper, "summary", <<>>)
                    paper_type == Get(paper, "type", "unknown")
                IN  [title |-> IF title # <<>> THEN clean_text(title)
                               ELSE <<"Source", " ", ToString(idx)>>,
                     url |-> Get(paper, "url", ""),
                     summary |-> IF summary # <<>> THEN clean_text(summary)
                                 ELSE <<"No description">>,
                     confidence |-> IF paper_type = "academic" THEN 42 ELSE 38,
                     date |-> Get(paper, "published", ""),
                     source_type |-> paper_type,
                     authors |-> Get(paper, "authors", <<>>)]]
        findings == Get(result, "findings", <<>>)
        insights == Get(result, "insights", <<>>)
        given == Get(result, "summary", <<>>)
        summary == IF given # <<>> THEN given
                   ELSE <<"Retrieved ", ToString(Len(formatted_sources)), " sources: ",
                          ToString(CountType([i \in 1..Len(formatted_sources) |->
                                        [type |-> formatted_sources[i].source_type]], "academic")),
                          " academic papers and ",
                          ToString(CountType([i \in 1..Len(formatted_sources) |->
                                        [type |-> formatted_sources[i].source_type]], "news")),
                          " news articles">>
    IN  [agent_name |-> "api",
         sources |-> formatted_sources,
         summary |-> clean_text(summary),
         findings |-> IF findings # <<>> THEN clean_list_items(findings) ELSE <<>>,
         insights |-> IF insights # <<>> THEN clean_list_items(insights) ELSE <<>>,
         cost |-> 0,
         tokens |-> 0]

\* _execute_api: the import, then the agent, then the formatting
ExecuteApi(import_error, query, domain, fetch) ==
    IF import_error # "none" THEN ApiErrorResult("Import error: " \o import_error)
    ELSE ApiResult(APIAgentExecute(query, domain, fetch))

(***************************************************************************)
(* Consolidator: _consolidate_results and _generate_fallback_summary.      *)
(***************************************************************************)
MaxFindings == 10
MaxInsights == 8

Truthy(error) == error # ""

HasError(agent_result) == Truthy(Get(agent_result, "error", ""))

\* [str(f).strip() for f in items if f]
Stripped(items) ==
    LET kept == SelectSeq(items, LAMBDA f : f # <<>>)
    IN  [i \in 1..Len(kept) |-> Strip(kept[i])]

\* a loop that keeps the first non-empty summary, whichever agent gave it
RECURSIVE CollectFirstSummary(_, _, _)
CollectFirstSummary(agent_results, idx, acc) ==
    IF idx > Len(agent_results) THEN acc
    ELSE LET agent_result == agent_results[idx]
             summary == Get(agent_result, "summary", <<>>)
         IN  IF HasError(agent_result) THEN CollectFirstSummary(agent_results, idx + 1, acc)
             ELSE CollectFirstSummary(agent_results, idx + 1,
                    [all_findings |-> acc.all_findings
                                        \o Stripped(Get(agent_result, "findings", <<>>)),
                     all_insights |-> acc.all_insights
                                        \o Stripped(Get(agent_result, "insights", <<>>)),
                     best_summary |->
                        IF summary # <<>> /\ Strip(summary) # <<>> /\ acc.best_summary = <<>>
                        THEN summary
                        ELSE acc.best_summary])

\* a loop in which every non-empty summary replaces the one before
RECURSIVE CollectLastSummary(_, _, _)
CollectLastSummary(agent_results, idx, acc) ==
    IF idx > Len(agent_results) THEN acc
    ELSE LET agent_result == agent_results[idx]
             summary == Get(agent_result, "summary", <<>>)
         IN  IF HasError(agent_result) THEN CollectLastSummary(agent_results, idx + 1, acc)
             ELSE CollectLastSummary(agent_results, idx + 1,
                    [all_findings |-> acc.all_findings
                                        \o Stripped(Get(agent_result, "findings", <<>>)),
                     all_insights |-> acc.all_insights
                                        \o Stripped(Get(agent_result, "insights", <<>>)),
                     best_summary |->
                        IF summary # <<>> /\ Strip(summary) # <<>>
                        THEN summary
                        ELSE acc.best_summary])

\* the loop of _consolidate_results from entry idx on; acc holds
\* all_findings, all_insights and best_summary
RECURSIVE Collect(_, _, _)
Collect(agent_results, idx, acc) ==
    IF idx > Len(agent_results) THEN acc
    ELSE LET agent_result == agent_results[idx]
             agent_name == Get(agent_result, "agent_name", "agent_" \o ToString(idx))
             summary == Get(agent_result, "summary", <<>>)
         IN  IF HasError(agent_result) THEN Collect(agent_results, idx + 1, acc)
             ELSE Collect(agent_results, idx + 1,
                    [all_findings |-> acc.all_findings
                                        \o Stripped(Get(agent_result, "findings", <<>>)),
                     all_insights |-> acc.all_insights
                                        \o Stripped(Get(agent_result, "insights", <<>>)),
                     best_summary |->
                        IF summary # <<>> /\ Strip(summary) # <<>>
                           /\ (agent_name = "perplexity" \/ acc.best_summary = <<>>)
                        THEN summary
                        ELSE acc.best_summary])

generate_fallback_summary(results) ==
    LET agent_results == Get(results, "agent_results", <<>>)
        agent_count == Len(SelectSeq(agent_results, LAMBDA r : ~HasError(r)))
        total_sources == Get(results, "total_sources", 0)
    IN  <<"Research completed using ", ToString(agent_count), " specialized agents. ",
          "Collected ", ToString(total_sources), " sources from multiple channels.">>

consolidate_results(results) ==
    LET acc == Collect(Get(results, "agent_results", <<>>), 1,
                       [all_findings |-> <<>>, all_insights |-> <<>>, best_summary |-> <<>>])
    IN  [results EXCEPT
            !.key_findings = Prefix(clean_list_items(acc.all_findings), MaxFindings),
            !.insights = Prefix(clean_list_items(acc.all_insights), MaxInsights),
            !.summary = IF acc.best_summary # <<>> THEN clean_text(acc.best_summary)
                        ELSE generate_fallback_summary(results)]

(***************************************************************************)
(* Dispatcher: ResearchWorkflow.execute.                                   *)
(***************************************************************************)
\* the results structure execute() starts from
InitialResults(query, domain, start_time) ==
    [query |-> query, domain |-> domain, timestamp |-> start_time,
     agent_results |-> <<>>, summary |-> <<>>, key_findings |-> <<>>,
     insights |-> <<>>, total_sources |-> 0, total_cost |-> 0,
     total_tokens |-> 0, execution_time |-> 0]

\* a task list that follows the selection: ids in the order of their first
\* occurrence, the registered ones kept
BuildTasksInRequestOrder(agent_selection) ==
    LET lower == [i \in 1..Len(agent_selection) |-> Lower(agent_selection[i])]
        first == SelectSeq([i \in 1..Len(lower) |-> [at |-> i, id |-> lower[i]]],
                           LAMBDA e : /\ e.id \in Range(AgentNames)
                                      /\ \A j \in 1..(e.at - 1) : lower[j] # e.id)
    IN  [i \in 1..Len(first) |-> first[i].id]

\* a task list with one task per occurrence of a registered id
BuildTasksPerOccurrence(agent_selection) ==
    LET lower == [i \in 1..Len(agent_selection) |-> Lower(agent_selection[i])]
    IN  Concat([k \in 1..Len(AgentNames) |->
                  SelectSeq(lower, LAMBDA id : id = AgentNames[k])])

\* the task list: one entry per registry name found in the lower-cased
\* selection, in the order of the if-chain
BuildTasks(agent_selection) ==
    LET agent_selection_lower == [i \in 1..Len(agent_selection) |-> Lower(agent_selection[i])]
    IN  SelectSeq(AgentNames, LAMBDA name : name \in Range(agent_selection_lower))

\* the check for an empty task list left out
NoTasksIgnored(tasks) == FALSE

\* "if not tasks"
NoTasks(tasks) == tasks = <<>>

\* the early return without the error key
NoAgentsResultSilent(results) == results

\* what execute() returns when there is no task
NoAgentsResult(results) == results @@ [error |-> "No agents selected for execution"]

\* an adapter that has not produced anything
NoResponse == [pending |-> TRUE]

\* a gather that returns as soon as one awaitable has finished
GatherFirstCompleted(tasks, status) == \E i \in 1..Len(tasks) : status[tasks[i]] = "done"

\* asyncio.gather(*task_coroutines, return_exceptions=True): has every
\* awaitable finished
GatherDone(tasks, status) == \A i \in 1..Len(tasks) : status[tasks[i]] = "done"

\* a gather whose values come in the order in which the awaitables finished
GatherResultsByCompletion(tasks, responses, completed) ==
    [i \in 1..Len(tasks) |->
        IF i <= Len(completed) THEN responses[completed[i]] ELSE responses[tasks[i]]]

\* the list gather returns: the i-th value belongs to the i-th awaitable
GatherResults(tasks, responses, completed) ==
    [i \in 1..Len(tasks) |-> responses[tasks[i]]]

IsException(response) == "exception" \in DOMAIN response

\* a response loop that gives up once an agent has failed
ProcessResponseUntilFailure(results, agent_name, response) ==
    IF \E i \in DOMAIN results.agent_results : "error" \in DOMAIN results.agent_results[i]
    THEN results
    ELSE [results EXCEPT
            !.agent_results = Append(@, response),
            !.total_sources = @ + Len(Get(response, "sources", <<>>)),
            !.total_cost = @ + Get(response, "cost", 0),
            !.total_tokens = @ + Get(response, "tokens", 0)]

\* a response loop that assigns the totals instead of adding to them
ProcessResponseAssigning(results, agent_name, response) ==
    [results EXCEPT
        !.agent_results = Append(@, response),
        !.total_sources = Len(Get(response, "sources", <<>>)),
        !.total_cost = Get(response, "cost", 0),
        !.total_tokens = Get(response, "tokens", 0)]

\* a response loop in which a failure spoils the agents behind it: once an
\* entry with an error is recorded, the later agents are recorded as failed
ProcessResponseSpoiledByFailure(results, agent_name, response) ==
    IF \E i \in DOMAIN results.agent_results : "error" \in DOMAIN results.agent_results[i]
    THEN [results EXCEPT !.agent_results =
            Append(@, [agent_name |-> agent_name, error |-> "aborted",
                       sources |-> <<>>, cost |-> 0, tokens |-> 0])]
    ELSE IF "exception" \in DOMAIN response
    THEN [results EXCEPT !.agent_results =
            Append(@, [agent_name |-> agent_name, error |-> response.exception,
                       sources |-> <<>>, cost |-> 0, tokens |-> 0])]
    ELSE [results EXCEPT
            !.agent_results = Append(@, response),
            !.total_sources = @ + Len(Get(response, "sources", <<>>)),
            !.total_cost = @ + Get(response, "cost", 0),
            !.total_tokens = @ + Get(response, "tokens", 0)]

\* a response loop that has no entry for an adapter that raised
ProcessResponseSkippingExceptions(results, agent_name, response) ==
    IF "exception" \in DOMAIN response THEN results
    ELSE [results EXCEPT
            !.agent_results = Append(@, response),
            !.total_sources = @ + Len(Get(response, "sources", <<>>)),
            !.total_cost = @ + Get(response, "cost", 0),
            !.total_tokens = @ + Get(response, "tokens", 0)]

\* a response loop that leaves failed agents out of agent_results
ProcessResponseDroppingErrors(results, agent_name, response) ==
    IF "error" \in DOMAIN response THEN results
    ELSE [results EXCEPT
            !.agent_results = Append(@, response),
            !.total_sources = @ + Len(Get(response, "sources", <<>>)),
            !.total_cost = @ + Get(response, "cost", 0),
            !.total_tokens = @ + Get(response, "tokens", 0)]

\* one round of the "Process responses" loop
ProcessResponse(results, agent_name, response) ==
    IF IsException(response)
    THEN [results EXCEPT !.agent_results =
            Append(@, [agent_name |-> agent_name, error |-> response.exception,
                       sources |-> <<>>, cost |-> 0, tokens |-> 0])]
    ELSE [results EXCEPT
            !.agent_results = Append(@, response),
            !.total_sources = @ + Len(Get(response, "sources", <<>>)),
            !.total_cost = @ + Get(response, "cost", 0),
            !.total_tokens = @ + Get(response, "tokens", 0)]

RECURSIVE ProcessFrom(_, _, _, _)
ProcessFrom(results, tasks, agent_responses, idx) ==
    IF idx > Len(agent_responses) THEN results
    ELSE ProcessFrom(ProcessResponse(results, tasks[idx], agent_responses[idx]),
                     tasks, agent_responses, idx + 1)

ProcessResponses(results, tasks, agent_responses) ==
    ProcessFrom(results, tasks, agent_responses, 1)

\* (end_time - start_time).total_seconds()
ExecutionTime(start_time, end_time) == end_time - start_time

(***************************************************************************)
(* The state of one ResearchWorkflow object and of one execute() call on   *)
(* the event loop that asyncio.run starts for it.                          *)
(***************************************************************************)
VARIABLES
    pc,               \* "idle": not called; "gather": awaiting gather; "done": returned;
                      \* "clean_text" / "cleaned": a direct call of _clean_text;
                      \* "clean_list" / "list_cleaned": one of _clean_list_items
    query, domain, agent_selection,   \* the arguments of execute()
    start_time,       \* datetime.now() at entry
    results,          \* the results dict
    tasks,            \* the agent names of the task list, in list order
    calls,            \* per adapter, how many coroutines execute() created
    status,           \* per adapter task: "idle", "ready", "io", "blocked", "done"
    ready,            \* the event loop's FIFO of runnable adapter tasks
    responses,        \* per adapter, the dict it returned
    upstream,         \* per adapter, what its collaborator did and whether it failed
    completed,        \* adapter names in the order in which they finished
    perplexity_agent, \* self.perplexity_agent is set
    api_agent,        \* self.api_agent is set
    text,             \* the argument of a direct _clean_text or _clean_list_items call
    cleaned,          \* what that call returned
    session_state,    \* st.session_state of the page app.py
    script,           \* where the script run of app.py stands, with the inputs of the run
    result_objects    \* the dicts the runs returned; session_state refers to them by position

vars == <<pc, query, domain, agent_selection, start_time, results, tasks, calls,
          status, ready, responses, upstream, completed, perplexity_agent, api_agent,
          text, cleaned, session_state, script, result_objects>>

Agents == Range(AgentNames)

ImportErrors == {"none", "No module named agents"}

NoImportErrors == {"none"}

NoUpstream == [called |-> FALSE]

\* app.py, "Initialize session state": the keys the first script run sets
InitialSessionState ==
    [research_results |-> 0,          \* None; otherwise a position in result_objects
     selected_agents |-> <<"perplexity", "api">>,
     cost_history |-> <<>>,
     research_history |-> <<>>,
     processing |-> FALSE,
     mock_mode |-> FALSE,
     agent_status |-> [a \in Agents |-> "idle"]]

\* no script run of app.py is under way
NoScript == [at |-> "rest"]

\* ResearchWorkflow.__init__; no call of execute() yet
Init ==
    /\ pc = "idle"
    /\ query = <<>>
    /\ domain = ""
    /\ agent_selection = <<>>
    /\ start_time = 0
    /\ results = <<>>
    /\ tasks = <<>>
    /\ calls = [a \in Agents |-> 0]
    /\ status = [a \in Agents |-> "idle"]
    /\ ready = <<>>
    /\ responses = [a \in Agents |-> NoResponse]
    /\ upstream = [a \in Agents |-> NoUpstream]
    /\ completed = <<>>
    /\ perplexity_agent = FALSE
    /\ api_agent = FALSE
    /\ text = <<>>
    /\ cleaned = <<>>
    /\ session_state = InitialSessionState
    /\ script = NoScript
    /\ result_objects = <<>>

\* the single thread is inside the synchronous analyze_youtube call
ThreadBusy == status["youtube"] = "blocked"

Occurrences(seq, a) == Len(SelectSeq(seq, LAMBDA e : e = a))

\* execute() from its entry to "await asyncio.gather", or to the early return
ExecuteStart(q, d, sel, now) ==
    /\ pc = "idle"
    /\ query' = q
    /\ domain' = d
    /\ agent_selection' = sel
    /\ start_time' = now
    /\ LET t == BuildTasks(sel)
       IN  /\ tasks' = t
           /\ calls' = [a \in Agents |-> Occurrences(t, a)]
           /\ IF NoTasks(t)
              THEN /\ results' = NoAgentsResult(InitialResults(q, d, now))
                   /\ pc' = "done"
                   /\ UNCHANGED <<status, ready>>
              ELSE /\ results' = InitialResults(q, d, now)
                   /\ pc' = "gather"
                   /\ status' = [a \in Agents |-> IF a \in Range(t) THEN "ready" ELSE "idle"]
                   /\ ready' = t
    /\ UNCHANGED <<responses, upstream, completed, perplexity_agent, api_agent>>
    /\ UNCHANGED <<text, cleaned>>
    /\ UNCHANGED <<session_state, script, result_objects>>

Finish(a, response, up) ==
    /\ status' = [status EXCEPT ![a] = "done"]
    /\ responses' = [responses EXCEPT ![a] = response]
    /\ upstream' = [upstream EXCEPT ![a] = up]
    /\ completed' = Append(completed, a)

Runnable(a, st) ==
    /\ pc = "gather"
    /\ ~ThreadBusy
    /\ ready # <<>>
    /\ Head(ready) = a
    /\ status[a] = st

\* _execute_perplexity from its start to the await of the agent (or to an
\* early error return)
PerplexityStart(import_error, api_key) ==
    /\ Runnable("perplexity", "ready")
    /\ upstream["perplexity"] = NoUpstream
    /\ ready' = Tail(ready)
    /\ LET r == PerplexityBegin(import_error, api_key)
       IN  IF "await" \in DOMAIN r
           THEN /\ status' = [status EXCEPT !["perplexity"] = "io"]
                /\ upstream' = [upstream EXCEPT !["perplexity"] = [called |-> TRUE]]
                /\ perplexity_agent' = TRUE
                /\ UNCHANGED <<responses, completed>>
           ELSE /\ Finish("perplexity", r, NoUpstream)
                /\ UNCHANGED perplexity_agent
    /\ UNCHANGED <<pc, query, domain, agent_selection, start_time, results, tasks,
                   calls, api_agent>>
    /\ UNCHANGED <<text, cleaned>>
    /\ UNCHANGED <<session_state, script, result_objects>>

\* the HTTP exchange of deep_search is over: the loop makes the task runnable
HttpReady ==
    /\ pc = "gather"
    /\ status["perplexity"] = "io"
    /\ status' = [status EXCEPT !["perplexity"] = "ready"]
    /\ ready' = Append(ready, "perplexity")
    /\ UNCHANGED <<pc, query, domain, agent_selection, start_time, results, tasks,
                   calls, responses, upstream, completed, perplexity_agent, api_agent>>
    /\ UNCHANGED <<text, cleaned>>
    /\ UNCHANGED <<session_state, script, result_objects>>

\* _execute_perplexity from the await to its return
PerplexityResume(http) ==
    /\ Runnable("perplexity", "ready")
    /\ upstream["perplexity"] # NoUpstream
    /\ ready' = Tail(ready)
    /\ LET result == PerplexityAgentExecute(http, query, domain)
       IN  Finish("perplexity", PerplexityResult(result),
                  [called |-> TRUE, http |-> http, result |-> result,
                   failed |-> ~Get(result, "success", FALSE)])
    /\ UNCHANGED <<pc, query, domain, agent_selection, start_time, results, tasks,
                   calls, perplexity_agent, api_agent>>
    /\ UNCHANGED <<text, cleaned>>
    /\ UNCHANGED <<session_state, script, result_objects>>

\* _execute_youtube from its start to the call of analyze_youtube (or to an
\* early error return)
YoutubeStart(api_key, import_error) ==
    /\ Runnable("youtube", "ready")
    /\ ready' = Tail(ready)
    /\ LET r == YoutubeBegin(api_key, import_error)
       IN  IF "call" \in DOMAIN r
           THEN /\ status' = [status EXCEPT !["youtube"] = "blocked"]
                /\ UNCHANGED <<responses, upstream, completed>>
           ELSE Finish("youtube", r, NoUpstream)
    /\ UNCHANGED <<pc, query, domain, agent_selection, start_time, results, tasks,
                   calls, perplexity_agent, api_agent>>
    /\ UNCHANGED <<text, cleaned>>
    /\ UNCHANGED <<session_state, script, result_objects>>

\* analyze_youtube returns or raises, and _execute_youtube runs to its return
YoutubeFinish(env) ==
    /\ pc = "gather"
    /\ status["youtube"] = "blocked"
    /\ LET state == [topic |-> query, domain |-> domain, mode |-> "extended"]
           result == analyze_youtube(state, env)
       IN  Finish("youtube", YoutubeResult(result),
                  [called |-> TRUE, result |-> result,
                   failed |-> ~env.api_key \/ env.search = "failed" \/ env.raises])
    /\ UNCHANGED <<pc, query, domain, agent_selection, start_time, results, tasks,
                   calls, ready, perplexity_agent, api_agent>>
    /\ UNCHANGED <<text, cleaned>>
    /\ UNCHANGED <<session_state, script, result_objects>>

\* _execute_api: it never suspends, APIAgent.execute awaits nothing
ApiRun(import_error, fetch) ==
    /\ Runnable("api", "ready")
    /\ ready' = Tail(ready)
    /\ api_agent' = (import_error = "none")
    /\ Finish("api", ExecuteApi(import_error, query, domain, fetch),
              IF import_error = "none"
              THEN [called |-> TRUE, result |-> APIAgentExecute(query, domain, fetch),
                    failed |-> fetch.raised]
              ELSE NoUpstream)
    /\ UNCHANGED <<pc, query, domain, agent_selection, start_time, results, tasks,
                   calls, perplexity_agent>>
    /\ UNCHANGED <<text, cleaned>>
    /\ UNCHANGED <<session_state, script, result_objects>>

\* execute() from the return of gather to its own return: the response
\* loop, _consolidate_results and the execution time
ExecuteFinish ==
    /\ pc = "gather"
    /\ ~ThreadBusy
    /\ GatherDone(tasks, status)
    /\ LET agent_responses == GatherResults(tasks, responses, completed)
           processed == ProcessResponses(results, tasks, agent_responses)
           consolidated == consolidate_results(processed)
       IN  \E end_time \in ClockVals :
              results' = [consolidated EXCEPT
                             !.execution_time = ExecutionTime(start_time, end_time)]
    /\ pc' = "done"
    /\ UNCHANGED <<query, domain, agent_selection, start_time, tasks, calls, status,
                   ready, responses, upstream, completed, perplexity_agent, api_agent>>
    /\ UNCHANGED <<text, cleaned>>
    /\ UNCHANGED <<session_state, script, result_objects>>

\* a direct call of _clean_text(text)
CleanText ==
    /\ pc = "clean_text"
    /\ cleaned' = clean_text(text)
    /\ pc' = "cleaned"
    /\ UNCHANGED <<query, domain, agent_selection, start_time, results, tasks, calls,
                   status, ready, responses, upstream, completed, perplexity_agent,
                   api_agent, text>>
    /\ UNCHANGED <<session_state, script, result_objects>>

\* a direct call of _clean_list_items(text)
CleanList ==
    /\ pc = "clean_list"
    /\ cleaned' = clean_list_items(text)
    /\ pc' = "list_cleaned"
    /\ UNCHANGED <<query, domain, agent_selection, start_time, results, tasks, calls,
                   status, ready, responses, upstream, completed, perplexity_agent,
                   api_agent, text>>
    /\ UNCHANGED <<session_state, script, result_objects>>

(***************************************************************************)
(* Spec: one call of execute() for every set of registered agents, with    *)
(* every outcome of every collaborator.                                    *)
(***************************************************************************)
Next ==
    \/ \E qd \in QueryDomains, sel \in PlainSelections, now \in ClockVals :
          ExecuteStart(qd[1], qd[2], sel, now)
    \/ \E import_error \in ImportErrors, api_key \in BOOLEAN :
          PerplexityStart(import_error, api_key)
    \/ HttpReady
    \/ \E http \in HttpOutcomes : PerplexityResume(http)
    \/ \E api_key \in BOOLEAN, import_error \in ImportErrors :
          YoutubeStart(api_key, import_error)
    \/ \E env \in YoutubeEnvs : YoutubeFinish(env)
    \/ \E import_error \in ImportErrors, fetch \in Fetches : ApiRun(import_error, fetch)
    \/ ExecuteFinish

Spec == Init /\ [][Next]_vars

(***************************************************************************)
(* SpecRequests: one call of execute() for every list of at most MaxSel    *)
(* ids (unknown ids, repeated ids, any order, any case), with a failing    *)
(* and a succeeding outcome of every collaborator.                         *)
(***************************************************************************)
NextRequests ==
    \/ \E qd \in QueryDomains, sel \in AllSelections, now \in ClockVals :
          ExecuteStart(qd[1], qd[2], sel, now)
    \/ \E import_error \in NoImportErrors, api_key \in BOOLEAN :
          PerplexityStart(import_error, api_key)
    \/ HttpReady
    \/ \E http \in FewHttpOutcomes : PerplexityResume(http)
    \/ \E api_key \in BOOLEAN, import_error \in NoImportErrors :
          YoutubeStart(api_key, import_error)
    \/ \E env \in FewYoutubeEnvs : YoutubeFinish(env)
    \/ \E import_error \in NoImportErrors, fetch \in FewFetches : ApiRun(import_error, fetch)
    \/ ExecuteFinish

SpecRequests == Init /\ [][NextRequests]_vars

(***************************************************************************)
(* SpecScheduled: Spec with the scheduling the code guarantees.  The event *)
(* loop runs every runnable task, and the HTTP exchange of deep_search is  *)
(* over after at most 120 seconds (ClientTimeout, perplexity_client.py     *)
(* line 62).  Nothing bounds analyze_youtube (line 288) or                 *)
(* APIAgent.execute (line 336): their return is not a fairness condition.  *)
(* The last conjunct is WF_vars(ExecuteFinish) with the enabling condition *)
(* of ExecuteFinish written out.                                           *)
(***************************************************************************)
LoopSteps ==
    \/ \E import_error \in ImportErrors, api_key \in BOOLEAN :
          PerplexityStart(import_error, api_key)
    \/ HttpReady
    \/ \E http \in HttpOutcomes : PerplexityResume(http)
    \/ \E api_key \in BOOLEAN, import_error \in ImportErrors :
          YoutubeStart(api_key, import_error)

\* gather has returned: ExecuteFinish is enabled
GatherReturned == pc = "gather" /\ ~ThreadBusy /\ GatherDone(tasks, status)

SpecScheduled ==
    /\ Init /\ [][Next]_vars
    /\ WF_vars(LoopSteps)
    /\ ([]<>~GatherReturned \/ []<><<ExecuteFinish>>_vars)

(***************************************************************************)
(* SpecSanitizer: _clean_text called on every text of at most MaxLen       *)
(* characters.                                                             *)
(***************************************************************************)
InitSanitizer ==
    /\ pc = "clean_text"
    /\ text \in Texts
    /\ cleaned = <<>>
    /\ session_state = InitialSessionState
    /\ script = NoScript
    /\ result_objects = <<>>
    /\ query = <<>>
    /\ domain = ""
    /\ agent_selection = <<>>
    /\ start_time = 0
    /\ results = <<>>
    /\ tasks = <<>>
    /\ calls = [a \in Agents |-> 0]
    /\ status = [a \in Agents |-> "idle"]
    /\ ready = <<>>
    /\ responses = [a \in Agents |-> NoResponse]
    /\ upstream = [a \in Agents |-> NoUpstream]
    /\ completed = <<>>
    /\ perplexity_agent = FALSE
    /\ api_agent = FALSE

NextSanitizer == CleanText

SpecSanitizer == InitSanitizer /\ [][NextSanitizer]_vars

(***************************************************************************)
(* SpecCleanList: _clean_list_items called on every list of at most        *)
(* MaxItems items.                                                         *)
(***************************************************************************)
InitCleanList ==
    /\ pc = "clean_list"
    /\ text \in ItemLists
    /\ cleaned = <<>>
    /\ session_state = InitialSessionState
    /\ script = NoScript
    /\ result_objects = <<>>
    /\ query = <<>>
    /\ domain = ""
    /\ agent_selection = <<>>
    /\ start_time = 0
    /\ results = <<>>
    /\ tasks = <<>>
    /\ calls = [a \in Agents |-> 0]
    /\ status = [a \in Agents |-> "idle"]
    /\ ready = <<>>
    /\ responses = [a \in Agents |-> NoResponse]
    /\ upstream = [a \in Agents |-> NoUpstream]
    /\ completed = <<>>
    /\ perplexity_agent = FALSE
    /\ api_agent = FALSE

NextCleanList == CleanList

SpecCleanList == InitCleanList /\ [][NextCleanList]_vars

(***************************************************************************)
(* SpecResponses: execute() from the return of gather on (the response     *)
(* loop, _consolidate_results, the execution time), for every task list    *)
(* without repetition and every list of values gather can hand back: the   *)
(* dicts of the shapes the adapters return, and exceptions.                *)
(***************************************************************************)
\* the finding "f<k>" and the insight "i<k>"
F(k) == <<"f" \o ToString(k)>>

I(k) == <<"i" \o ToString(k)>>

\* what _clean_text leaves of "a # b": the blanks around the deleted
\* character stay
Spaced(a, b) == <<a, " ", " ", b>>

\* a dict of the shape the adapters return on success
Success(agent_name, summary, findings, insights, n) ==
    [agent_name |-> agent_name,
     sources |-> [k \in 1..n |-> [title |-> <<"T">>, url |-> "u" \o ToString(k)]],
     summary |-> summary, findings |-> findings, insights |-> insights,
     cost |-> IF agent_name = "perplexity" THEN n * 5 ELSE 0,
     tokens |-> IF agent_name = "perplexity" THEN n ELSE 0]

Raised(msg) == [exception |-> msg]

AgentResponses ==
    [perplexity |->
        { Success("perplexity", Spaced("S", "1"), <<F(1), F(2), F(3), F(4), F(5)>>,
                  <<I(1), I(2), I(3), I(4)>>, 2),
          Success("perplexity", <<"S1">>, <<Spaced("a", "b"), <<"a", " ", "b">>, F(1)>>,
                  <<>>, 1),
          Success("perplexity", <<>>, <<>>, <<>>, 0),
          ErrorResult("perplexity", "PERPLEXITY_API_KEY not found"),
          Raised("boom") },
     youtube |->
        { Success("youtube", <<"S2">>, <<F(5), F(6), F(7), F(8), F(9)>>,
                  <<I(4), I(5), I(6)>>, 2),
          Success("youtube", <<>>, <<>>, <<>>, 0),
          ErrorResult("youtube", "YOUTUBE_API_KEY not configured"),
          ErrorResult("youtube", ""),
          Raised("boom") },
     api |->
        { Success("api", <<"S3">>, <<F(1), F(9), F(10), F(11), F(12)>>,
                  <<I(6), I(7), I(8), I(9)>>, 3),
          Success("api", <<"S3">>, <<F(1), Spaced("a", "b")>>, <<I(1)>>, 1),
          Success("api", <<>>, <<>>, <<>>, 0),
          ApiErrorResult("Import error: No module named agents"),
          Raised("") }]

\* every task list in which no agent is repeated, in every order
TaskLists ==
    {t \in UNION {[1..k -> Agents] : k \in 1..Len(AgentNames)} :
        \A i, j \in DOMAIN t : i # j => t[i] # t[j]}

InitResponses ==
    /\ pc = "gather"
    /\ query = <<"q">>
    /\ domain = "general"
    /\ tasks \in TaskLists
    /\ agent_selection = tasks
    /\ start_time = 0
    /\ results = InitialResults(query, domain, start_time)
    /\ calls = [a \in Agents |-> Occurrences(tasks, a)]
    /\ status = [a \in Agents |-> IF a \in Range(tasks) THEN "done" ELSE "idle"]
    /\ ready = <<>>
    /\ responses \in [Agents -> UNION {AgentResponses[a] : a \in Agents} \cup {NoResponse}]
    /\ \A a \in Agents :
          IF a \in Range(tasks) THEN responses[a] \in AgentResponses[a]
          ELSE responses[a] = NoResponse
    /\ upstream = [a \in Agents |-> NoUpstream]
    /\ completed = tasks
    /\ perplexity_agent = FALSE
    /\ api_agent = FALSE
    /\ text = <<>>
    /\ cleaned = <<>>
    /\ session_state = InitialSessionState
    /\ script = NoScript
    /\ result_objects = <<>>

NextResponses == ExecuteFinish

SpecResponses == InitResponses /\ [][NextResponses]_vars

(***************************************************************************)
(* The page: app.py.  Streamlit runs the script from top to bottom on      *)
(* every interaction; st.session_state lives across the script runs.  A    *)
(* dict returned by a run is an object that session_state refers to: the   *)
(* objects are result_objects, a reference is a position in it.            *)
(***************************************************************************)
MaxRuns == 2       \* runs that return a dict

UIDomains == {"stocks", "medical"}

UIQueries == { <<" ">>, <<"q">> }          \* the first is blank

\* what render_agent_display returns: the toggled agents in registry order
UISelections == { <<>>, <<"perplexity">>, <<"youtube", "api">> }

WorkflowVars == <<pc, query, domain, agent_selection, start_time, results, tasks, calls,
                  status, ready, responses, upstream, completed, perplexity_agent,
                  api_agent, text, cleaned>>

\* the WorkflowResults execute(q, d, sel) may return: every agent succeeded,
\* or every agent failed
ExecuteReturns(q, d, sel) ==
    LET t == BuildTasks(sel)
        initial == InitialResults(q, d, 0)
        Run(ok) ==
            consolidate_results(ProcessResponses(initial, t,
                [i \in DOMAIN t |->
                    IF ok THEN Success(t[i], <<"S">>, <<F(i)>>, <<I(i)>>, 1)
                    ELSE ErrorResult(t[i], "boom")]))
    IN  IF NoTasks(t) THEN { NoAgentsResult(initial) }
        ELSE { Run(TRUE), Run(FALSE) }

\* simulate_research: what it returns for a domain
MockData(d) ==
    [summary |-> <<"Mock ", d>>,
     articles |-> << [title |-> <<"A1">>, url |-> "https://example.com/1"],
                     [title |-> <<"A2">>, url |-> "https://example.com/2"] >>,
     videos |-> IF d = "medical"
                THEN << [title |-> <<"V1">>, url |-> "https://youtube.com/watch"] >>
                ELSE <<>>,
     total_cost |-> 0]

\* render_results, "Ensure required keys exist": the keys it adds to the dict
render_results(res) ==
    res @@ [agent_results |-> <<>>, agents_used |-> <<>>, query |-> "N/A", domain |-> "N/A"]

\* a script run in which the Start button was clicked, up to asyncio.run
StartButton(q, d, sel, mock) ==
    /\ script = NoScript
    /\ ~session_state.processing
    /\ Len(result_objects) < MaxRuns
    /\ IF Strip(q) = <<>> \/ sel = <<>>
       THEN /\ session_state' = [session_state EXCEPT !.selected_agents = sel,
                                                       !.mock_mode = mock]
            /\ script' = [at |-> "col2"]
       ELSE /\ session_state' = [session_state EXCEPT !.selected_agents = sel,
                                                       !.mock_mode = mock,
                                                       !.processing = TRUE]
            /\ script' = [at |-> IF mock THEN "mock" ELSE "real",
                          query |-> q, domain |-> d, selected_agents |-> sel]
    /\ UNCHANGED result_objects
    /\ UNCHANGED WorkflowVars

\* the real branch from asyncio.run(workflow.execute(...)) to the end of
\* its try / except / finally
RealRun(raises) ==
    /\ script.at = "real"
    /\ IF raises
       THEN /\ session_state' = [session_state EXCEPT !.processing = FALSE]
            /\ UNCHANGED result_objects
       ELSE \E res \in ExecuteReturns(script.query, script.domain, script.selected_agents) :
              LET ref == Len(result_objects) + 1
              IN  /\ result_objects' = Append(result_objects, res)
                  /\ session_state' =
                        [session_state EXCEPT
                            !.research_results = ref,
                            !.research_history =
                                Append(@, [timestamp |-> "now", query |-> script.query,
                                           domain |-> script.domain, results |-> ref]),
                            !.cost_history =
                                Append(@, [timestamp |-> "now",
                                           cost |-> Get(res, "total_cost", 0),
                                           agents |-> script.selected_agents]),
                            !.processing = FALSE]
    /\ script' = [at |-> "col2"]
    /\ UNCHANGED WorkflowVars

\* the mock branch from asyncio.run(simulate_research(...)) on.  It returns
\* (then st.rerun() starts the script again), or it raises: before the
\* coroutine has started (reached = 0), or while agent number reached is
\* being simulated; the exception ends the script run.
MockRun(raises, reached) ==
    /\ script.at = "mock"
    /\ reached \in 0..Len(script.selected_agents)
    /\ LET sel == script.selected_agents
           Status(upto, last) ==
               [a \in Agents |->
                   IF \E i \in 1..upto : sel[i] = a THEN "complete"
                   ELSE IF last > 0 /\ sel[last] = a THEN "processing"
                   ELSE session_state.agent_status[a]]
       IN  IF raises
           THEN /\ session_state' =
                     IF reached = 0 THEN session_state
                     ELSE [session_state EXCEPT
                              !.research_results = 0,
                              !.agent_status = Status(reached - 1, reached)]
                /\ script' = NoScript
                /\ UNCHANGED result_objects
           ELSE /\ reached = Len(sel)
                /\ result_objects' = Append(result_objects, MockData(script.domain))
                /\ session_state' =
                     [session_state EXCEPT
                         !.research_results = Len(result_objects) + 1,
                         !.agent_status = Status(Len(sel), 0),
                         !.processing = FALSE]
                /\ script' = [at |-> "col2"]
    /\ UNCHANGED WorkflowVars

\* a script run without a click on Start (any other interaction)
Rerun(sel) ==
    /\ script = NoScript
    /\ session_state' = [session_state EXCEPT !.selected_agents = sel]
    /\ script' = [at |-> "col2"]
    /\ UNCHANGED result_objects
    /\ UNCHANGED WorkflowVars

\* the second column: render_results on the dict research_results refers to
Column2 ==
    /\ script.at = "col2"
    /\ LET ref == session_state.research_results
       IN  IF ref # 0 /\ result_objects[ref] # <<>>
           THEN result_objects' = [result_objects EXCEPT ![ref] = render_results(@)]
           ELSE UNCHANGED result_objects
    /\ script' = NoScript
    /\ UNCHANGED session_state
    /\ UNCHANGED WorkflowVars

(***************************************************************************)
(* SpecApp: the page from its first script run, with at most MaxRuns runs  *)
(* that return.                                                            *)
(***************************************************************************)
NextApp ==
    \/ \E q \in UIQueries, d \in UIDomains, sel \in UISelections, mock \in BOOLEAN :
          StartButton(q, d, sel, mock)
    \/ \E raises \in BOOLEAN : RealRun(raises)
    \/ \E raises \in BOOLEAN, reached \in 0..Len(AgentNames) : MockRun(raises, reached)
    \/ \E sel \in UISelections : Rerun(sel)
    \/ Column2

SpecApp == Init /\ [][NextApp]_vars

(***************************************************************************)
(* Vocabulary of the properties.                                           *)
(***************************************************************************)
Returned == pc = "done"

\* is registry name a asked for by the selection (ids compared lower-cased)
Requested(a) == \E i \in DOMAIN agent_selection : Lower(agent_selection[i]) = a

NamesOf(agent_results) == [i \in DOMAIN agent_results |-> agent_results[i].agent_name]

\* the registered names of the selection in the order of their first occurrence
RequestOrder ==
    LET first == SelectSeq([i \in DOMAIN agent_selection |->
                               [at |-> i, id |-> Lower(agent_selection[i])]],
                           LAMBDA e : /\ e.id \in Agents
                                      /\ \A j \in 1..(e.at - 1) :
                                            Lower(agent_selection[j]) # e.id)
    IN  [i \in DOMAIN first |-> first[i].id]

\* the requested names in the order of the registry
RegistryOrder == SelectSeq(<<"perplexity", "youtube", "api">>, Requested)

ErrorSet(agent_result) == "error" \in DOMAIN agent_result

EntriesOf(a) == {i \in DOMAIN results.agent_results : results.agent_results[i].agent_name = a}

ContentKeys == {"sources", "summary", "findings", "insights"}

WorkflowResultKeys ==
    {"query", "domain", "timestamp", "agent_results", "summary", "key_findings",
     "insights", "total_sources", "total_cost", "total_tokens", "execution_time"}

(***************************************************************************)
(* C1: containment.  Whenever execute() has returned from a run in which   *)
(* at least one dispatched adapter failed, the value is a complete         *)
(* WorkflowResult, agent_results has exactly one entry per dispatched      *)
(* agent, and the entry of every agent that succeeded is the dict its      *)
(* adapter returned, with sources, summary, findings and insights, and as  *)
(* many sources as its collaborator delivered.                             *)
(***************************************************************************)
DeliveredSources(a) ==
    LET result == upstream[a].result
    IN  CASE a = "perplexity" -> Len(result.sources)
          [] a = "youtube"    -> Len(result.youtube_results.sources)
          [] a = "api"        -> Len(result.papers)

C1_Containment ==
    (Returned /\ \E a \in Range(tasks) : ErrorSet(responses[a])) =>
        /\ WorkflowResultKeys \subseteq DOMAIN results
        /\ Len(results.agent_results) = Len(tasks)
        /\ \A a \in Range(tasks) : Cardinality(EntriesOf(a)) = 1
        /\ \A a \in Range(tasks) :
              ~ErrorSet(responses[a]) =>
                 \E i \in EntriesOf(a) :
                    /\ results.agent_results[i] = responses[a]
                    /\ ContentKeys \subseteq DOMAIN results.agent_results[i]
                    /\ Len(results.agent_results[i].sources) = DeliveredSources(a)

C1_Witness ==
    /\ Returned
    /\ \E a \in Range(tasks) : ErrorSet(responses[a])
    /\ \E a \in Range(tasks) :
          /\ ~ErrorSet(responses[a])
          /\ responses[a].sources # <<>>
          /\ responses[a].findings # <<>>

(***************************************************************************)
(* C2: no short-circuit.  The step in which execute() leaves the gather    *)
(* and consolidates is taken only when every scheduled adapter has         *)
(* finished, and no step takes an adapter that is scheduled or running     *)
(* back to "idle": the only way out of a run is to finish.                 *)
(***************************************************************************)
Started(a) == status[a] \in {"ready", "io", "blocked"}

C2_NoShortCircuit ==
    [][ /\ (pc = "gather" /\ pc' = "done") =>
              \A a \in Range(tasks) : status[a] = "done" /\ responses[a] # NoResponse
        /\ \A a \in Agents : Started(a) => (Started(a)' \/ status'[a] = "done")
      ]_vars

C2_Witness ==
    /\ pc = "gather"
    /\ \E a \in Range(tasks) : status[a] = "done" /\ ErrorSet(responses[a])
    /\ \E b \in Range(tasks) : Started(b)

(***************************************************************************)
(* C3, as stated: agent_results lists the agents in the order in which     *)
(* their ids appear in the request.                                        *)
(***************************************************************************)
C3_RequestOrder ==
    (Returned /\ tasks # <<>>) => NamesOf(results.agent_results) = RequestOrder

(***************************************************************************)
(* C3, amended: agent_results lists the requested agents in the fixed      *)
(* order of the registry (perplexity, youtube, api), whatever the order of *)
(* the ids in the request.                                                 *)
(***************************************************************************)
C3_RegistryOrder ==
    (Returned /\ tasks # <<>>) => NamesOf(results.agent_results) = RegistryOrder

C3_Witness ==
    /\ Returned
    /\ Len(results.agent_results) >= 2
    /\ RequestOrder # RegistryOrder

(***************************************************************************)
(* C4: the order of agent_results is the dispatch order, whatever the      *)
(* completion order: the i-th entry is the dict returned by the adapter of *)
(* the i-th task and carries that adapter's name.                          *)
(***************************************************************************)
C4_DispatchOrder ==
    (Returned /\ tasks # <<>>) =>
        /\ Len(results.agent_results) = Len(tasks)
        /\ \A i \in DOMAIN tasks :
              /\ results.agent_results[i].agent_name = tasks[i]
              /\ results.agent_results[i] = responses[tasks[i]]

C4_Witness ==
    /\ Returned
    /\ Len(tasks) >= 2
    /\ completed # tasks
    /\ Range(completed) = Range(tasks)

(***************************************************************************)
(* C5: the totals are the sums of cost, tokens and len(sources) over the   *)
(* entries of agent_results without error, and an entry with error has no  *)
(* sources, cost 0 and tokens 0.                                           *)
(***************************************************************************)
NonErrorEntries == SelectSeq(results.agent_results, LAMBDA r : ~ErrorSet(r))

C5_Aggregates ==
    (Returned /\ tasks # <<>>) =>
        LET ok == NonErrorEntries
        IN  /\ results.total_cost = SumSeq([i \in DOMAIN ok |-> ok[i].cost])
            /\ results.total_tokens = SumSeq([i \in DOMAIN ok |-> ok[i].tokens])
            /\ results.total_sources = SumSeq([i \in DOMAIN ok |-> Len(ok[i].sources)])
            /\ \A i \in DOMAIN results.agent_results :
                  LET r == results.agent_results[i]
                  IN  ErrorSet(r) => r.sources = <<>> /\ r.cost = 0 /\ r.tokens = 0

C5_Witness ==
    /\ Returned
    /\ \E i \in DOMAIN results.agent_results : ErrorSet(results.agent_results[i])
    /\ Len(NonErrorEntries) >= 2
    /\ results.total_cost > 0
    /\ results.total_sources > 2

(***************************************************************************)
(* C6: an entry with error contributes nothing to the report: every        *)
(* consolidated finding and insight is a cleaned finding or insight of an  *)
(* entry without error, the summary is the cleaned summary of such an      *)
(* entry or the fallback, and every failed agent still has its entry in    *)
(* agent_results with the error text its adapter gave.                     *)
(***************************************************************************)
C6_ErrorsExcluded ==
    (Returned /\ tasks # <<>>) =>
        LET ok == NonErrorEntries
        IN  /\ \A f \in Range(results.key_findings) :
                  \E i \in DOMAIN ok : f \in Range(clean_list_items(ok[i].findings))
            /\ \A f \in Range(results.insights) :
                  \E i \in DOMAIN ok : f \in Range(clean_list_items(ok[i].insights))
            /\ \/ \E i \in DOMAIN ok :
                     ok[i].summary # <<>> /\ results.summary = clean_text(ok[i].summary)
               \/ results.summary = generate_fallback_summary(results)
            /\ \A a \in Range(tasks) :
                  ErrorSet(responses[a]) =>
                     \E i \in EntriesOf(a) :
                        /\ ErrorSet(results.agent_results[i])
                        /\ results.agent_results[i].error = responses[a].error

C6_Witness ==
    /\ Returned
    /\ \E i \in DOMAIN results.agent_results :
          /\ ErrorSet(results.agent_results[i])
          /\ results.agent_results[i].error # ""
    /\ results.key_findings # <<>>
    /\ results.summary # generate_fallback_summary(results)

(***************************************************************************)
(* C7, as stated: whenever the collaborator of an adapter failed (it       *)
(* raised, lacked its credential, or reported a failed or empty upstream   *)
(* fetch), the adapter returns a dict with error set, no sources, cost 0   *)
(* and tokens 0.                                                           *)
(***************************************************************************)
C7_AdaptersReportFailure ==
    \A a \in Agents :
        (status[a] = "done" /\ upstream[a].called /\ upstream[a].failed) =>
            /\ ErrorSet(responses[a])
            /\ responses[a].sources = <<>>
            /\ responses[a].cost = 0
            /\ responses[a].tokens = 0

(***************************************************************************)
(* C8: when no id of the selection is in the registry, execute() returns   *)
(* at once with the "no agents selected" error: no adapter is created or   *)
(* run, the Consolidator is not run, and the results keep their initial    *)
(* values.                                                                 *)
(***************************************************************************)
NoneRequested == \A a \in Agents : ~Requested(a)

C8_NoAgents ==
    (pc # "idle" /\ NoneRequested) =>
        /\ Returned
        /\ "error" \in DOMAIN results
        /\ results.error = "No agents selected for execution"
        /\ results.agent_results = <<>>
        /\ results.summary = <<>>
        /\ results.key_findings = <<>> /\ results.insights = <<>>
        /\ results.total_sources = 0 /\ results.total_cost = 0
        /\ results.total_tokens = 0 /\ results.execution_time = 0
        /\ \A a \in Agents :
              calls[a] = 0 /\ status[a] = "idle" /\ responses[a] = NoResponse

C8_Witness ==
    /\ Returned
    /\ NoneRequested
    /\ agent_selection # <<>>
    /\ start_time > 0

(***************************************************************************)
(* C9: exactly the registered agents whose id occurs in the selection      *)
(* (compared case-insensitively) are dispatched, each once, however often  *)
(* the id occurs and whatever unknown ids stand beside it; and when one id *)
(* is valid the result has no workflow-level error and one entry per       *)
(* requested agent.                                                        *)
(***************************************************************************)
C9_DispatchedOnce ==
    (pc # "idle") =>
        /\ \A a \in Agents : calls[a] = IF Requested(a) THEN 1 ELSE 0
        /\ \A a \in Agents : (status[a] # "idle") <=> Requested(a)
        /\ (Returned /\ ~NoneRequested) =>
              /\ "error" \notin DOMAIN results
              /\ \A a \in Agents :
                    Cardinality(EntriesOf(a)) = IF Requested(a) THEN 1 ELSE 0

C9_Witness ==
    /\ Returned
    /\ "bogus" \in Range(agent_selection)
    /\ Occurrences(agent_selection, "YouTube") = 2
    /\ Cardinality(EntriesOf("youtube")) = 1
    /\ Len(results.agent_results) = 1

(***************************************************************************)
(* C10, as stated: a query that is empty after trimming, or an empty       *)
(* agent_ids, is reported as an error field of the returned result.        *)
(***************************************************************************)
BlankQuery == Strip(query) = <<>>

C10_MisuseReported ==
    (Returned /\ (BlankQuery \/ agent_selection = <<>>)) => "error" \in DOMAIN results

(***************************************************************************)
(* C10, amended: an empty agent_ids is reported as an error field of the   *)
(* returned result; a query that is empty after trimming is not checked by *)
(* execute(), which dispatches it like any other query, so that the result *)
(* has an error field exactly when no registered agent was requested.      *)
(***************************************************************************)
C10_EmptySelectionReported ==
    Returned =>
        /\ agent_selection = <<>> => "error" \in DOMAIN results
        /\ BlankQuery => ("error" \in DOMAIN results <=> NoneRequested)
        /\ WorkflowResultKeys \subseteq DOMAIN results

C10_Witness ==
    /\ Returned
    /\ BlankQuery
    /\ agent_selection # <<>>
    /\ "error" \notin DOMAIN results
    /\ results.agent_results # <<>>

(***************************************************************************)
(* C16, as stated: the sanitizer is idempotent, cleaning a cleaned text    *)
(* gives the same text again.                                              *)
(***************************************************************************)
C16_Idempotent ==
    (pc = "cleaned") => clean_text(cleaned) = cleaned

(***************************************************************************)
(* C17, as stated: a cleaned text has no tag bracket and no emphasis       *)
(* marker pair left, has no character outside the allowlist, has no two    *)
(* whitespace characters in a row, does not begin or end with whitespace,  *)
(* and is empty when the text was empty.                                   *)
(***************************************************************************)
C17_Sanitized ==
    (pc = "cleaned") =>
        /\ \A i \in DOMAIN cleaned : cleaned[i] \notin Disallowed
        /\ \A i \in DOMAIN cleaned :
              /\ ~MatchAt(cleaned, i, <<"<">>, ">", <<">">>)
              /\ ~MatchAt(cleaned, i, <<"*">>, "*", <<"*">>)
              /\ ~MatchAt(cleaned, i, <<"_">>, "_", <<"_">>)
        /\ \A i \in 1..(Len(cleaned) - 1) :
              ~(cleaned[i] \in Whitespace /\ cleaned[i + 1] \in Whitespace)
        /\ cleaned # <<>> =>
              cleaned[1] \notin Whitespace /\ cleaned[Len(cleaned)] \notin Whitespace
        /\ text = <<>> => cleaned = <<>>

(***************************************************************************)
(* C11, as stated: when every dispatched agent ended in an error result,   *)
(* execute() returns a complete WorkflowResult that also carries a         *)
(* workflow-level error field.                                             *)
(***************************************************************************)
AllErrored ==
    /\ results.agent_results # <<>>
    /\ \A i \in DOMAIN results.agent_results : ErrorSet(results.agent_results[i])

C11_AllErroredReported ==
    (Returned /\ tasks # <<>> /\ AllErrored) =>
        /\ WorkflowResultKeys \subseteq DOMAIN results
        /\ "error" \in DOMAIN results

(***************************************************************************)
(* C18: deep_search never raises.  Whatever the HTTP call ended in, the    *)
(* value handed to the adapter is a mapping with a success flag; it is     *)
(* True exactly when a 200 response with a choice was parsed, and then the *)
(* report fields are all present; otherwise error is a non-empty text and  *)
(* tokens_used is 0.                                                       *)
(***************************************************************************)
SearchKeys ==
    {"executive_summary", "key_findings", "insights", "sources", "tokens_used",
     "estimated_cost"}

SearchSucceeds(http) ==
    /\ http.kind = "json"
    /\ "malformed" \notin DOMAIN http.body
    /\ Get(http.body, "choices", <<>>) # <<>>

C18_NeverRaises ==
    (status["perplexity"] = "done" /\ upstream["perplexity"].called) =>
        LET r == upstream["perplexity"].result
            http == upstream["perplexity"].http
        IN  /\ "raise" \notin DOMAIN r
            /\ "success" \in DOMAIN r
            /\ r.success \in BOOLEAN
            /\ r.success <=> SearchSucceeds(http)
            /\ r.success => SearchKeys \subseteq DOMAIN r
            /\ ~r.success =>
                  /\ "error" \in DOMAIN r
                  /\ r.error # ""
                  /\ r.tokens_used = 0

C18_Witness ==
    /\ status["perplexity"] = "done"
    /\ upstream["perplexity"].called
    /\ upstream["perplexity"].http.kind = "exception"
    /\ upstream["perplexity"].result.success = FALSE
    /\ responses["perplexity"].error = "Connection error: boom"

(***************************************************************************)
(* What the agents without error reported, in dispatch order.              *)
(***************************************************************************)
ReportedFindings ==
    LET ok == NonErrorEntries
    IN  Concat([i \in DOMAIN ok |-> Get(ok[i], "findings", <<>>)])

ReportedInsights ==
    LET ok == NonErrorEntries
    IN  Concat([i \in DOMAIN ok |-> Get(ok[i], "insights", <<>>)])

\* s without the elements that occurred before, by equality
RECURSIVE DedupFrom(_, _, _)
DedupFrom(s, i, acc) ==
    IF i > Len(s) THEN acc
    ELSE DedupFrom(s, i + 1, IF s[i] \in Range(acc) THEN acc ELSE Append(acc, s[i]))

Dedup(s) == DedupFrom(s, 1, <<>>)

NoDuplicates(s) == \A i, j \in DOMAIN s : i # j => s[i] # s[j]

\* the index of the first occurrence of e in s
IndexOf(s, e) == CHOOSE i \in DOMAIN s : s[i] = e /\ \A j \in 1..(i - 1) : s[j] # e

Consolidated == Returned /\ tasks # <<>>

(***************************************************************************)
(* C12, as stated: key_findings is the first 10, and insights the first 8, *)
(* of the agents' strings concatenated in dispatch order and deduplicated  *)
(* by exact equality; every consolidated entry is one of the agents'       *)
(* strings; with at least 10 distinct findings key_findings has length 10. *)
(***************************************************************************)
C12_ExactDedup ==
    Consolidated =>
        /\ results.key_findings = Prefix(Dedup(ReportedFindings), MaxFindings)
        /\ results.insights = Prefix(Dedup(ReportedInsights), MaxInsights)
        /\ Range(results.key_findings) \subseteq Range(ReportedFindings)
        /\ Range(results.insights) \subseteq Range(ReportedInsights)
        /\ Cardinality(Range(ReportedFindings)) >= MaxFindings =>
              Len(results.key_findings) = MaxFindings

(***************************************************************************)
(* C13, as stated: key_findings has at most 10 entries and insights at     *)
(* most 8, neither holds a string twice, and a finding that two agents     *)
(* reported occurs once, where its first occurrence in dispatch order puts *)
(* it (when that place is within the cap).                                 *)
(***************************************************************************)
SharedFindings ==
    LET ok == NonErrorEntries
    IN  {f \in Range(ReportedFindings) :
            \E i, j \in DOMAIN ok :
                /\ i < j
                /\ f \in Range(Get(ok[i], "findings", <<>>))
                /\ f \in Range(Get(ok[j], "findings", <<>>))}

C13_CappedDeduplicated ==
    Consolidated =>
        /\ Len(results.key_findings) <= MaxFindings
        /\ Len(results.insights) <= MaxInsights
        /\ NoDuplicates(results.key_findings)
        /\ NoDuplicates(results.insights)
        /\ \A f \in SharedFindings :
              LET p == IndexOf(Dedup(ReportedFindings), f)
              IN  /\ Occurrences(results.key_findings, f) <= 1
                  /\ p <= MaxFindings =>
                        /\ p <= Len(results.key_findings)
                        /\ results.key_findings[p] = f

(***************************************************************************)
(* The entries without error that carry a non-empty summary.               *)
(***************************************************************************)
SummaryEntries ==
    {i \in DOMAIN results.agent_results :
        /\ ~ErrorSet(results.agent_results[i])
        /\ Get(results.agent_results[i], "summary", <<>>) # <<>>}

PerplexityEntries ==
    {i \in DOMAIN results.agent_results :
        results.agent_results[i].agent_name = "perplexity"}

(***************************************************************************)
(* C14: summary priority.  When the deep-search entry has no error and a   *)
(* non-empty summary, the consolidated summary is the clean_text of that   *)
(* summary, wherever the entry stands and whatever the others supply.      *)
(***************************************************************************)
C14_SummaryPriority ==
    Consolidated =>
        \A i \in SummaryEntries \cap PerplexityEntries :
            results.summary = clean_text(results.agent_results[i].summary)

C14_Witness ==
    /\ Consolidated
    /\ \E i \in SummaryEntries \cap PerplexityEntries :
          /\ \E j \in SummaryEntries : j < i
          /\ clean_text(results.agent_results[i].summary) # results.agent_results[i].summary
          /\ results.summary = <<"S", " ", "1">>

(***************************************************************************)
(* C15, as stated: when no entry without error has a non-empty summary,    *)
(* the summary is the fallback sentence, with N the number of entries      *)
(* without error and with the total_sources of the result.                 *)
(***************************************************************************)
C15_FallbackSummary ==
    (Consolidated /\ SummaryEntries = {}) =>
        results.summary =
            <<"Research completed using ", ToString(Len(NonErrorEntries)),
              " specialized agents. ",
              "Collected ", ToString(results.total_sources),
              " sources from multiple channels.">>

(***************************************************************************)
(* C19, as stated: an exception that gather hands back for an adapter      *)
(* becomes that agent's entry with error "<agent_id> failed: <message>",   *)
(* no sources, cost 0 and tokens 0, and the other agents' entries are the  *)
(* dicts their adapters returned.                                          *)
(***************************************************************************)
ExceptionEntry(agent_name, error) ==
    [agent_name |-> agent_name, error |-> error, sources |-> <<>>, cost |-> 0, tokens |-> 0]

FirstSummaryEntry == CHOOSE i \in SummaryEntries : \A j \in SummaryEntries : i <= j

C20_FirstSummary ==
    (Consolidated /\ SummaryEntries # {} /\ SummaryEntries \cap PerplexityEntries = {}) =>
        results.summary = clean_text(results.agent_results[FirstSummaryEntry].summary)

C20_Witness ==
    /\ Consolidated
    /\ PerplexityEntries # {}
    /\ SummaryEntries \cap PerplexityEntries = {}
    /\ Cardinality(SummaryEntries) = 2
    /\ \E i \in SummaryEntries :
          results.agent_results[i].summary # results.agent_results[FirstSummaryEntry].summary
    /\ results.summary = results.agent_results[FirstSummaryEntry].summary

(***************************************************************************)
(* C21: clean_list returns the clean_text of the items in the order of     *)
(* the list, without the ones that clean to the empty string and without   *)
(* the ones whose cleaned value stood earlier in the list; the result has  *)
(* no duplicate and no empty string, and keeps the order of the items.     *)
(***************************************************************************)
CleanedItems == [i \in DOMAIN text |-> clean_text(text[i])]

C21_CleanList ==
    (pc = "list_cleaned") =>
        /\ cleaned = Dedup(SelectSeq(CleanedItems, LAMBDA t : t # <<>>))
        /\ NoDuplicates(cleaned)
        /\ \A i \in DOMAIN cleaned : cleaned[i] # <<>>
        /\ \A i, j \in DOMAIN cleaned :
              i < j =>
                 \E k, l \in DOMAIN text :
                    /\ k < l
                    /\ CleanedItems[k] = cleaned[i]
                    /\ CleanedItems[l] = cleaned[j]
                    /\ \A m \in 1..(l - 1) : CleanedItems[m] # cleaned[j]

C21_Witness ==
    /\ pc = "list_cleaned"
    /\ text = << <<"<", "i", ">", "b">>, <<" ">>, <<"*", "a", "*">>, <<"b">> >>
    /\ cleaned = << <<"b">>, <<"a">> >>

(***************************************************************************)
(* C22: errors do not cross agent boundaries.  Take the run that has       *)
(* returned and any other run of the same request in which one agent b     *)
(* ended differently (another dict of its adapter, or an exception) and    *)
(* every other agent ended as it did here: every other agent a has the     *)
(* same single entry in agent_results in both runs.                        *)
(***************************************************************************)
EntriesIn(res, a) == SelectSeq(res.agent_results, LAMBDA e : e.agent_name = a)

\* what the response loop makes of this run's responses with b's replaced by r
OtherRun(b, r) ==
    ProcessResponses(InitialResults(query, domain, start_time), tasks,
                     GatherResults(tasks, [responses EXCEPT ![b] = r], completed))

VideoCallInProgress == pc = "gather" /\ status["youtube"] = "blocked"

C23_VideoCallAwaited ==
    \A a \in {"perplexity", "api"} :
        (VideoCallInProgress /\ ready # <<>> /\ Head(ready) = a /\ status[a] = "ready") =>
            Runnable(a, "ready")

(***************************************************************************)
(* C24, as stated: every adapter bounds its collaborator call by a         *)
(* timeout, so every call of execute() that dispatched its adapters        *)
(* eventually returns.                                                     *)
(***************************************************************************)
C24_EventuallyReturns == (pc = "gather") ~> (pc = "done")

(***************************************************************************)
(* C25, as stated: the execution_time of a WorkflowResult that went        *)
(* through dispatch is never negative, whatever the system clock read at   *)
(* the entry of execute() and after consolidation.                         *)
(***************************************************************************)
C25_NonNegativeTime == Consolidated => results.execution_time >= 0

(***************************************************************************)
(* C26, as stated: the cost and tokens of every non-error AgentResult are  *)
(* the cost and token count its collaborator reported for the call, and    *)
(* total_cost and total_tokens are the sums of what the collaborators      *)
(* reported.                                                               *)
(***************************************************************************)
\* what the collaborator of agent a reported (APIAgent.execute reports none)
ReportedCost(a) ==
    CASE a = "perplexity" -> Get(upstream[a].result, "estimated_cost", 0)
      [] a = "youtube" -> Get(Get(upstream[a].result, "youtube_results", <<>>), "cost", 0)
      [] a = "api" -> 0

ReportedTokens(a) ==
    CASE a = "perplexity" -> Get(upstream[a].result, "tokens_used", 0)
      [] a = "youtube" -> Get(Get(upstream[a].result, "youtube_results", <<>>), "tokens", 0)
      [] a = "api" -> 0

\* the positions of the entries of agents whose collaborator call succeeded
Succeeded ==
    { i \in DOMAIN results.agent_results :
        ~ErrorSet(results.agent_results[i]) /\ upstream[tasks[i]].called }

RECURSIVE SumOver(_, _)
SumOver(f, S) ==
    IF S = {} THEN 0
    ELSE LET i == CHOOSE j \in S : TRUE IN f[i] + SumOver(f, S \ {i})

C26_NumbersPassThrough ==
    Consolidated =>
        /\ Len(results.agent_results) = Len(tasks)
        /\ \A i \in Succeeded :
              /\ results.agent_results[i].cost = ReportedCost(tasks[i])
              /\ results.agent_results[i].tokens = ReportedTokens(tasks[i])
        /\ results.total_cost =
              SumOver([i \in DOMAIN tasks |-> ReportedCost(tasks[i])], Succeeded)
        /\ results.total_tokens =
              SumOver([i \in DOMAIN tasks |-> ReportedTokens(tasks[i])], Succeeded)

(***************************************************************************)
(* C28, as stated: every entry that records a failure is one the           *)
(* Consolidator skips, whatever its message, and a fallback summary counts *)
(* only the entries that record no failure.                                *)
(***************************************************************************)
FallbackSentence(summary) ==
    Len(summary) >= 2 /\ summary[1] = "Research completed using "

C28_FailedIsSkipped ==
    Consolidated =>
        /\ \A i \in DOMAIN results.agent_results :
              ErrorSet(results.agent_results[i]) => HasError(results.agent_results[i])
        /\ FallbackSentence(results.summary) =>
              results.summary[2] = ToString(Len(NonErrorEntries))

(***************************************************************************)
(* C29, as stated: the "Error fetching data: ..." message of the           *)
(* academic/news collaborator is never the summary of a WorkflowResult.    *)
(***************************************************************************)
FetchErrorText(summary) ==
    Len(summary) >= 1 /\ summary[1] = "Error fetching data:"

C29_FetchErrorNotSummary == Consolidated => ~FetchErrorText(results.summary)

(***************************************************************************)
(* C27, as stated: a WorkflowResult that execute() has returned is never   *)
(* changed afterwards: no step of the page adds, removes or changes a key  *)
(* of a dict that research_history refers to.                              *)
(***************************************************************************)
ReturnedWorkflowResults ==
    { session_state.research_history[i].results : i \in DOMAIN session_state.research_history }

C27_NeverMutated ==
    [][\A ref \in ReturnedWorkflowResults : result_objects'[ref] = result_objects[ref]]_vars

(***************************************************************************)
(* C30, as stated: a run is in progress only for a query that is not blank *)
(* and at least one agent; processing is True exactly while a run is in    *)
(* progress, so it is False again after every run, mock or real, returned  *)
(* or raised; and the two histories hold one entry for each real run that  *)
(* returned and nothing else.                                              *)
(***************************************************************************)
RunInProgress == script.at \in {"real", "mock"}

\* the dicts that execute() returned
ReturnedByExecute ==
    { ref \in DOMAIN result_objects : "total_sources" \in DOMAIN result_objects[ref] }

C30_ProcessingReleased ==
    /\ RunInProgress => (Strip(script.query) # <<>> /\ script.selected_agents # <<>>)
    /\ session_state.processing <=> RunInProgress
    /\ Len(session_state.research_history) = Cardinality(ReturnedByExecute)
    /\ Len(session_state.cost_history) = Cardinality(ReturnedByExecute)

====
